---- MODULE Spec2Model ----
\* Model of conduit-conditional-get: the ConditionalGet middleware, its
\* freshness evaluator, the header concatenation helper and the three-grammar
\* HTTP date parser.  Byte strings are sequences of integers 0..255.
EXTENDS Integers, Sequences, FiniteSets, TLC

VARIABLES method, req_headers, res, ret, pc

vars == <<method, req_headers, res, ret, pc>>

\* ------------------------------------------------------------------ bounds
\* Largest number of header values (over all names) a request carries.
MaxReqValues == 2
\* Largest number of ETag values a response carries.
MaxEtagValues == 2

\* ------------------------------------------------------- sample byte strings
\* "Sun, 06 Nov 1994 08:49:37 GMT"
R1123_A == <<83, 117, 110, 44, 32, 48, 54, 32, 78, 111, 118, 32, 49, 57, 57, 52, 32, 48, 56, 58, 52, 57, 58, 51, 55, 32, 71, 77, 84>>
\* "Sun, 06 Nov 1994 08:49:38 GMT" (one second after R1123_A)
R1123_C == <<83, 117, 110, 44, 32, 48, 54, 32, 78, 111, 118, 32, 49, 57, 57, 52, 32, 48, 56, 58, 52, 57, 58, 51, 56, 32, 71, 77, 84>>
\* "Sun 11\t06 08:49:37 1994" (the instant of R1123_A in the third grammar)
ASC_A == <<83, 117, 110, 32, 49, 49, 9, 48, 54, 32, 48, 56, 58, 52, 57, 58, 51, 55, 32, 49, 57, 57, 52>>
\* "Sun, 06-11-94 08:49:37 GMT" (second grammar; the year is 94, long before 1994)
R850_B == <<83, 117, 110, 44, 32, 48, 54, 45, 49, 49, 45, 57, 52, 32, 48, 56, 58, 52, 57, 58, 51, 55, 32, 71, 77, 84>>
\* "1994-11-06 08:49:37 +0000" (the "%Y-%m-%d %H:%M:%S %z" stamp of the tests)
BAD_STAMP == <<49, 57, 57, 52, 45, 49, 49, 45, 48, 54, 32, 48, 56, 58, 52, 57, 58, 51, 55, 32, 43, 48, 48, 48, 48>>
\* a header value that is not UTF-8
NON_TEXT == <<255>>
\* a header value of length zero
EMPTY_VALUE == <<>>
\* "1234"
E1234 == <<49, 50, 51, 52>>
\* "12"
E12 == <<49, 50>>
\* "34"
E34 == <<51, 52>>
\* "hello"
HELLO == <<104, 101, 108, 108, 111>>
\* "text/plain"
TEXT_PLAIN == <<116, 101, 120, 116, 47, 112, 108, 97, 105, 110>>
\* "text/html"
TEXT_HTML == <<116, 101, 120, 116, 47, 104, 116, 109, 108>>
\* "5"
FIVE == <<53>>
\* "no-cache"
NO_CACHE == <<110, 111, 45, 99, 97, 99, 104, 101>>

\* ------------------------------------------------------------- header maps
IF_MODIFIED_SINCE == "if-modified-since"
IF_NONE_MATCH == "if-none-match"
LAST_MODIFIED == "last-modified"
ETAG == "etag"
CONTENT_TYPE == "content-type"
CONTENT_LENGTH == "content-length"
CACHE_CONTROL == "cache-control"

HeaderNames == {IF_MODIFIED_SINCE, IF_NONE_MATCH, LAST_MODIFIED, ETAG,
                CONTENT_TYPE, CONTENT_LENGTH, CACHE_CONTROL}

\* A HeaderMap: for every header name the values stored under it, in
\* insertion order (what get_all(name) iterates over); <<>> when absent.
HeaderMap_new == [n \in HeaderNames |-> <<>>]

HeaderMap_remove(headers, name) == [headers EXCEPT ![name] = <<>>]

RECURSIVE concat(_)
\* [&[u8]]::concat: the slices one after the other, nothing in between.
concat(values) ==
    IF values = <<>> THEN <<>> ELSE Head(values) \o concat(Tail(values))

RECURSIVE join_comma(_)
join_comma(values) ==
    IF values = <<>> THEN <<>>
    ELSE IF Len(values) = 1 THEN Head(values)
    ELSE Head(values) \o <<44>> \o join_comma(Tail(values))

\* Variant: the values of a repeated header joined with commas.
get_and_concat_header_comma(headers, name) == join_comma(headers[name])

get_and_concat_header(headers, name) ==
    LET values == headers[name]
    IN  IF Len(values) = 1
        THEN values[1]
        ELSE concat(values)

\* ------------------------------------------------------------ text and dates
RECURSIVE from_utf8_ok(_)
\* std::str::from_utf8(..).is_ok(): the bytes are well-formed UTF-8.
from_utf8_ok(b) ==
    LET Cont(i) == i <= Len(b) /\ b[i] \in 128..191
        Drop(n) == SubSeq(b, n + 1, Len(b))
    IN  IF b = <<>> THEN TRUE
        ELSE IF b[1] < 128 THEN from_utf8_ok(Drop(1))
        ELSE IF b[1] \in 194..223
             THEN Cont(2) /\ from_utf8_ok(Drop(2))
        ELSE IF b[1] \in 224..239
             THEN /\ Cont(2) /\ Cont(3)
                  /\ (b[1] = 224 => b[2] >= 160)
                  /\ (b[1] = 237 => b[2] <= 159)
                  /\ from_utf8_ok(Drop(3))
        ELSE IF b[1] \in 240..244
             THEN /\ Cont(2) /\ Cont(3) /\ Cont(4)
                  /\ (b[1] = 240 => b[2] >= 144)
                  /\ (b[1] = 244 => b[2] <= 143)
                  /\ from_utf8_ok(Drop(4))
        ELSE FALSE

Weekdays == << <<77, 111, 110>>, <<84, 117, 101>>, <<87, 101, 100>>,
               <<84, 104, 117>>, <<70, 114, 105>>, <<83, 97, 116>>,
               <<83, 117, 110>> >>

Months == << <<74, 97, 110>>, <<70, 101, 98>>, <<77, 97, 114>>,
             <<65, 112, 114>>, <<77, 97, 121>>, <<74, 117, 110>>,
             <<74, 117, 108>>, <<65, 117, 103>>, <<83, 101, 112>>,
             <<79, 99, 116>>, <<78, 111, 118>>, <<68, 101, 99>> >>

StartsWith(s, p) == Len(s) >= Len(p) /\ SubSeq(s, 1, Len(p)) = p
DropBytes(s, n) == SubSeq(s, n + 1, Len(s))
IsDigit(b) == b \in 48..57

RECURSIVE DigitsValue(_)
DigitsValue(d) ==
    IF d = <<>> THEN 0
    ELSE 10 * DigitsValue(SubSeq(d, 1, Len(d) - 1)) + (d[Len(d)] - 48)

\* Number of leading ASCII digits of s, at most max.
LeadingDigits(s, max) ==
    LET ns == {n \in 0..max : n <= Len(s) /\ \A i \in 1..n : IsDigit(s[i])}
    IN  CHOOSE n \in ns : \A k \in ns : k <= n

Lit(bytes) == [spec |-> "lit", lit |-> bytes]
Directive(c) == [spec |-> c, lit |-> <<>>]

ParseFailed == [ok |-> FALSE, rest |-> <<>>, year |-> 0, month |-> 0, day |-> 0,
                hour |-> 0, minute |-> 0, second |-> 0]

\* A field of exactly two digits (zero padded).
TwoDigits(s) == Len(s) >= 2 /\ IsDigit(s[1]) /\ IsDigit(s[2])

\* One item of a format string applied to the parse state st: a literal must
\* be the next bytes; a directive consumes its field and records its value.
ParseItem(st, item) ==
    LET s == st.rest
        two == DigitsValue(SubSeq(s, 1, 2))
        next2 == DropBytes(s, 2)
    IN  IF ~st.ok THEN ParseFailed
        ELSE IF item.spec = "lit"
             THEN IF StartsWith(s, item.lit)
                  THEN [st EXCEPT !.rest = DropBytes(s, Len(item.lit))]
                  ELSE ParseFailed
        ELSE IF item.spec = "a"
             THEN IF \E i \in 1..7 : StartsWith(s, Weekdays[i])
                  THEN [st EXCEPT !.rest = DropBytes(s, 3)]
                  ELSE ParseFailed
        ELSE IF item.spec = "b"
             THEN IF \E i \in 1..12 : StartsWith(s, Months[i])
                  THEN [st EXCEPT !.rest = DropBytes(s, 3),
                                  !.month = CHOOSE i \in 1..12 : StartsWith(s, Months[i])]
                  ELSE ParseFailed
        ELSE IF item.spec = "d"
             THEN IF TwoDigits(s) /\ two >= 1
                  THEN [st EXCEPT !.rest = next2, !.day = two]
                  ELSE ParseFailed
        ELSE IF item.spec = "m"
             THEN IF TwoDigits(s) /\ two >= 1
                  THEN [st EXCEPT !.rest = next2, !.month = two]
                  ELSE ParseFailed
        ELSE IF item.spec = "y"
             THEN IF TwoDigits(s)
                  THEN [st EXCEPT !.rest = next2,
                                  !.year = (st.year \div 100) * 100 + two]
                  ELSE ParseFailed
        ELSE IF item.spec = "Y"
             THEN LET signed == s # <<>> /\ s[1] \in {43, 45}
                      t == IF signed THEN DropBytes(s, 1) ELSE s
                      n == LeadingDigits(t, IF signed THEN 6 ELSE 4)
                      v == DigitsValue(SubSeq(t, 1, n))
                  IN  IF n >= 1
                      THEN [st EXCEPT !.rest = DropBytes(t, n),
                                      !.year = IF signed /\ s[1] = 45 THEN 0 - v ELSE v]
                      ELSE ParseFailed
        ELSE IF item.spec = "H"
             THEN IF TwoDigits(s)
                  THEN [st EXCEPT !.rest = next2, !.hour = two]
                  ELSE ParseFailed
        ELSE IF item.spec = "M"
             THEN IF TwoDigits(s)
                  THEN [st EXCEPT !.rest = next2, !.minute = two]
                  ELSE ParseFailed
        ELSE IF item.spec = "S"
             THEN IF TwoDigits(s)
                  THEN [st EXCEPT !.rest = next2, !.second = two]
                  ELSE ParseFailed
        ELSE ParseFailed

RECURSIVE ParseItems(_, _)
ParseItems(st, format) ==
    IF format = <<>> THEN st
    ELSE ParseItems(ParseItem(st, Head(format)), Tail(format))

IsLeapYear(y) == (y % 4 = 0) /\ ((y % 100 # 0) \/ (y % 400 = 0))

DaysInMonth(y, m) ==
    IF m = 2 THEN (IF IsLeapYear(y) THEN 29 ELSE 28)
    ELSE IF m \in {4, 6, 9, 11} THEN 30 ELSE 31

\* Days from 1970-01-01 to the proleptic Gregorian date y-m-d.
DaysFromCivil(y, m, d) ==
    LET yy == IF m <= 2 THEN y - 1 ELSE y
        era == yy \div 400
        yoe == yy - era * 400
        mp == IF m > 2 THEN m - 3 ELSE m + 9
        doy == (153 * mp + 2) \div 5 + d - 1
        doe == yoe * 365 + yoe \div 4 - yoe \div 100 + doy
    IN  era * 146097 + doe - 719468

ParseErr == [ok |-> FALSE, days |-> 0, secs |-> 0]

\* PrimitiveDateTime::parse(string, format)?.assume_utc(): the items of the
\* format are consumed from the front of the string (input left over after
\* the last item is not looked at), the date and the time of day are
\* validated, and the instant is kept as whole days since the epoch and
\* seconds of the day (the i64 unix timestamp is days * 86400 + secs).
PrimitiveDateTime_parse(string, format) ==
    LET st == ParseItems([ok |-> TRUE, rest |-> string, year |-> 0, month |-> 0,
                          day |-> 0, hour |-> 0, minute |-> 0, second |-> 0], format)
    IN  IF /\ st.ok
           /\ st.year \in -100000..100000
           /\ st.month \in 1..12
           /\ st.day \in 1..DaysInMonth(st.year, st.month)
           /\ st.hour < 24 /\ st.minute < 60 /\ st.second < 60
        THEN [ok |-> TRUE,
              days |-> DaysFromCivil(st.year, st.month, st.day),
              secs |-> st.hour * 3600 + st.minute * 60 + st.second]
        ELSE ParseErr

\* "%T" is "%H:%M:%S"
FormatT == <<Directive("H"), Lit(<<58>>), Directive("M"), Lit(<<58>>), Directive("S")>>

\* "%a, %d %b %Y %T GMT"
parse_rfc1123(string) ==
    PrimitiveDateTime_parse(string,
        <<Directive("a"), Lit(<<44, 32>>), Directive("d"), Lit(<<32>>),
          Directive("b"), Lit(<<32>>), Directive("Y"), Lit(<<32>>)>>
        \o FormatT \o <<Lit(<<32, 71, 77, 84>>)>>)

\* "%a, %d-%m-%y %T GMT"
parse_rfc850(string) ==
    PrimitiveDateTime_parse(string,
        <<Directive("a"), Lit(<<44, 32>>), Directive("d"), Lit(<<45>>),
          Directive("m"), Lit(<<45>>), Directive("y"), Lit(<<32>>)>>
        \o FormatT \o <<Lit(<<32, 71, 77, 84>>)>>)

\* "%a %m\t%d %T %Y"
parse_asctime(string) ==
    PrimitiveDateTime_parse(string,
        <<Directive("a"), Lit(<<32>>), Directive("m"), Lit(<<9>>),
          Directive("d"), Lit(<<32>>)>>
        \o FormatT \o <<Lit(<<32>>), Directive("Y")>>)

\* Variant: the third grammar is never tried.
parse_http_date_no_asctime(string) ==
    LET rfc1123 == parse_rfc1123(string)
        rfc850 == parse_rfc850(string)
    IN  IF rfc1123.ok THEN rfc1123
        ELSE IF rfc850.ok THEN rfc850
        ELSE ParseErr

parse_http_date(string) ==
    LET rfc1123 == parse_rfc1123(string)
        rfc850 == parse_rfc850(string)
        asctime == parse_asctime(string)
    IN  IF rfc1123.ok THEN rfc1123
        ELSE IF rfc850.ok THEN rfc850
        ELSE IF asctime.ok THEN asctime
        ELSE ParseErr

\* Variant: a strict comparison of the two timestamps.
unix_timestamp_gt(a, b) ==
    a.days > b.days \/ (a.days = b.days /\ a.secs > b.secs)

\* a.unix_timestamp() >= b.unix_timestamp()
unix_timestamp_ge(a, b) ==
    a.days > b.days \/ (a.days = b.days /\ a.secs >= b.secs)

\* ------------------------------------------------------------ the middleware
OK == 200
NOT_MODIFIED == 304
FOUND == 302

\* Body::empty()
Body_empty == <<>>

\* Variant: every status below 400 counts as ok.
is_ok_below_400(response) == response.status < 400

is_ok(response) == response.status = OK

\* Variant: a request without If-None-Match matches every ETag.
etag_matches_wildcard(none_match, response) ==
    LET value == get_and_concat_header(response.headers, ETAG)
    IN  none_match = <<>> \/ value = none_match

etag_matches(none_match, response) ==
    LET value == get_and_concat_header(response.headers, ETAG)
    IN  value = none_match

\* Variant: the comparison the other way round.
is_modified_since_reversed(modified_since, response) ==
    LET last_modified == get_and_concat_header(response.headers, LAST_MODIFIED)
    IN  IF ~from_utf8_ok(last_modified) THEN FALSE
        ELSE IF ~parse_http_date(last_modified).ok THEN FALSE
        ELSE unix_timestamp_ge(parse_http_date(last_modified), modified_since)

\* Variant: a response without Last-Modified passes the time check.
is_modified_since_absent_passes(modified_since, response) ==
    LET last_modified == get_and_concat_header(response.headers, LAST_MODIFIED)
    IN  IF ~from_utf8_ok(last_modified) THEN FALSE
        ELSE IF last_modified = <<>> THEN TRUE
        ELSE IF ~parse_http_date(last_modified).ok THEN FALSE
        ELSE unix_timestamp_ge(modified_since, parse_http_date(last_modified))

\* Variant: a Last-Modified that cannot be read counts as passed.
is_modified_since_lenient(modified_since, response) ==
    LET last_modified == get_and_concat_header(response.headers, LAST_MODIFIED)
    IN  IF ~from_utf8_ok(last_modified) THEN TRUE
        ELSE IF ~parse_http_date(last_modified).ok THEN TRUE
        ELSE unix_timestamp_ge(modified_since, parse_http_date(last_modified))

is_modified_since(modified_since, response) ==
    LET last_modified == get_and_concat_header(response.headers, LAST_MODIFIED)
    IN  IF ~from_utf8_ok(last_modified) THEN FALSE
        ELSE IF ~parse_http_date(last_modified).ok THEN FALSE
        ELSE unix_timestamp_ge(modified_since, parse_http_date(last_modified))

\* Variant: without the early return for a request that has no validators.
is_fresh_no_validator_guard(headers, response) ==
    LET modified_since == get_and_concat_header(headers, IF_MODIFIED_SINCE)
        none_match == get_and_concat_header(headers, IF_NONE_MATCH)
    IN  IF ~from_utf8_ok(modified_since)
             THEN etag_matches(none_match, response)
        ELSE IF modified_since = <<>>
             THEN etag_matches(none_match, response)
        ELSE IF ~parse_http_date(modified_since).ok
             THEN FALSE
        ELSE /\ is_modified_since(parse_http_date(modified_since), response)
             /\ etag_matches(none_match, response)

\* Variant: a date that does not parse counts as passed, like the other
\* two arms, instead of returning false.
is_fresh_bad_date_passes(headers, response) ==
    LET modified_since == get_and_concat_header(headers, IF_MODIFIED_SINCE)
        none_match == get_and_concat_header(headers, IF_NONE_MATCH)
    IN  IF modified_since = <<>> /\ none_match = <<>> THEN FALSE
        ELSE IF ~from_utf8_ok(modified_since)
             THEN etag_matches(none_match, response)
        ELSE IF modified_since = <<>>
             THEN etag_matches(none_match, response)
        ELSE IF ~parse_http_date(modified_since).ok
             THEN etag_matches(none_match, response)
        ELSE /\ is_modified_since(parse_http_date(modified_since), response)
             /\ etag_matches(none_match, response)

\* Variant: an If-Modified-Since that is not text fails the time check.
is_fresh_strict_utf8(headers, response) ==
    LET modified_since == get_and_concat_header(headers, IF_MODIFIED_SINCE)
        none_match == get_and_concat_header(headers, IF_NONE_MATCH)
    IN  IF modified_since = <<>> /\ none_match = <<>> THEN FALSE
        ELSE IF ~from_utf8_ok(modified_since)
             THEN FALSE
        ELSE IF modified_since = <<>>
             THEN etag_matches(none_match, response)
        ELSE IF ~parse_http_date(modified_since).ok
             THEN FALSE
        ELSE /\ is_modified_since(parse_http_date(modified_since), response)
             /\ etag_matches(none_match, response)

is_fresh(headers, response) ==
    LET modified_since == get_and_concat_header(headers, IF_MODIFIED_SINCE)
        none_match == get_and_concat_header(headers, IF_NONE_MATCH)
    IN  IF modified_since = <<>> /\ none_match = <<>> THEN FALSE
        ELSE IF ~from_utf8_ok(modified_since)
             THEN etag_matches(none_match, response)
        ELSE IF modified_since = <<>>
             THEN etag_matches(none_match, response)
        ELSE IF ~parse_http_date(modified_since).ok
             THEN FALSE
        ELSE /\ is_modified_since(parse_http_date(modified_since), response)
             /\ etag_matches(none_match, response)

\* Variant: an upstream error is answered with an empty 500 response.
after_error_to_response(req_method, headers, result) ==
    IF ~result.ok
    THEN [ok |-> TRUE, status |-> 500, headers |-> HeaderMap_new,
          body |-> Body_empty, err |-> ""]
    ELSE IF /\ req_method \in {"GET", "HEAD"}
            /\ is_ok(result)
            /\ is_fresh(headers, result)
         THEN [result EXCEPT
                 !.status = NOT_MODIFIED,
                 !.headers = HeaderMap_remove(
                                 HeaderMap_remove(result.headers, CONTENT_TYPE),
                                 CONTENT_LENGTH),
                 !.body = Body_empty]
         ELSE result

\* Variant: the rewrite forgets to remove Content-Length.
after_keeps_length(req_method, headers, result) ==
    IF ~result.ok THEN result
    ELSE IF /\ req_method \in {"GET", "HEAD"}
            /\ is_ok(result)
            /\ is_fresh(headers, result)
         THEN [result EXCEPT
                 !.status = NOT_MODIFIED,
                 !.headers = HeaderMap_remove(result.headers, CONTENT_TYPE),
                 !.body = Body_empty]
         ELSE result

\* ConditionalGet::after applied to the request (its method and headers) and
\* the upstream AfterResult.
after(req_method, headers, result) ==
    IF ~result.ok THEN result
    ELSE IF /\ req_method \in {"GET", "HEAD"}
            /\ is_ok(result)
            /\ is_fresh(headers, result)
         THEN [result EXCEPT
                 !.status = NOT_MODIFIED,
                 !.headers = HeaderMap_remove(
                                 HeaderMap_remove(result.headers, CONTENT_TYPE),
                                 CONTENT_LENGTH),
                 !.body = Body_empty]
         ELSE result

\* ------------------------------------------------------------------ inputs
SeqsUpTo(S, n) == UNION {[1..k -> S] : k \in 0..n}

Methods == {"GET", "HEAD", "POST"}

ImsValues == {R1123_A, BAD_STAMP, NON_TEXT, EMPTY_VALUE}
InmValues == {E1234, E12, E34}
EtagValues == {E1234}

\* The Last-Modified values a response can carry: none, one value in each
\* grammar, one that is no date, one that is not text, and a date appended
\* in two pieces ("Sun 11\t06 " and "08:49:37 1994").
LastModifiedValues ==
    {<<>>, <<R1123_C>>, <<ASC_A>>, <<R850_B>>, <<BAD_STAMP>>, <<NON_TEXT>>,
     <<SubSeq(ASC_A, 1, 10), SubSeq(ASC_A, 11, Len(ASC_A))>>}

\* The header maps a request can carry: values appended under
\* If-Modified-Since and If-None-Match.
RequestHeaders ==
    {[HeaderMap_new EXCEPT ![IF_MODIFIED_SINCE] = p[1], ![IF_NONE_MATCH] = p[2]] :
        p \in {q \in SeqsUpTo(ImsValues, MaxReqValues) \X SeqsUpTo(InmValues, MaxReqValues) :
                  Len(q[1]) + Len(q[2]) <= MaxReqValues}}

\* The headers of a response that are not validators.
EntityHeaders ==
    {HeaderMap_new,
     [HeaderMap_new EXCEPT ![CONTENT_TYPE] = <<TEXT_PLAIN, TEXT_HTML>>,
                           ![CONTENT_LENGTH] = <<FIVE>>,
                           ![CACHE_CONTROL] = <<NO_CACHE>>]}

ResponseHeaders ==
    {[e EXCEPT ![LAST_MODIFIED] = lm, ![ETAG] = et] :
        e \in EntityHeaders,
        lm \in LastModifiedValues,
        et \in SeqsUpTo(EtagValues, MaxEtagValues)}

\* What SimpleHandler::call produces: the configured status and headers and
\* the body "hello".
Responses ==
    {[ok |-> TRUE, status |-> s, headers |-> h, body |-> HELLO, err |-> ""] :
        s \in {OK, FOUND}, h \in ResponseHeaders}

\* An upstream failure (the Err side of AfterResult).
HandlerError == [ok |-> FALSE, status |-> 0, headers |-> HeaderMap_new,
                 body |-> <<>>, err |-> "handler error"]

\* No result yet.
Pending == [ok |-> FALSE, status |-> 0, headers |-> HeaderMap_new,
            body |-> <<>>, err |-> "pending"]

Init ==
    /\ method \in Methods
    /\ req_headers \in RequestHeaders
    /\ res \in Responses \cup {HandlerError}
    /\ ret = Pending
    /\ pc = "call"

\* The middleware stack hands the handler's result to ConditionalGet::after.
After ==
    /\ pc = "call"
    /\ ret' = after(method, req_headers, res)
    /\ pc' = "done"
    /\ UNCHANGED <<method, req_headers, res>>

Next == After

Spec == Init /\ [][Next]_vars

\* ------------------------------------------------------------ properties
ReqIMS == get_and_concat_header(req_headers, IF_MODIFIED_SINCE)
ReqINM == get_and_concat_header(req_headers, IF_NONE_MATCH)
ResLM == get_and_concat_header(res.headers, LAST_MODIFIED)
ResETag == get_and_concat_header(res.headers, ETAG)

Done == pc = "done"
GetOrHead == method \in {"GET", "HEAD"}
Upstream200 == res.ok /\ res.status = 200

\* The value is text that one of the three grammars accepts.
ParsesAsDate(b) ==
    /\ from_utf8_ok(b)
    /\ (parse_rfc1123(b).ok \/ parse_rfc850(b).ok \/ parse_asctime(b).ok)

\* The value is non-empty text that none of the three grammars accepts.
MatchesNoGrammar(b) ==
    /\ b # <<>>
    /\ from_utf8_ok(b)
    /\ ~parse_rfc1123(b).ok /\ ~parse_rfc850(b).ok /\ ~parse_asctime(b).ok

\* Instant a is not before instant b (a's timestamp >= b's).
NotBefore(a, b) == ~(a.days < b.days \/ (a.days = b.days /\ a.secs < b.secs))

\* The returned response is the 304 rewrite of the upstream response.
Rewritten ==
    /\ ret.ok
    /\ ret.status = 304
    /\ ret.body = <<>>
    /\ ret.headers[CONTENT_TYPE] = <<>>
    /\ ret.headers[CONTENT_LENGTH] = <<>>

\* C1: a 200 upstream response to a GET or HEAD request that is_fresh accepts
\* comes back with status 304, a zero-length body, no Content-Type and no
\* Content-Length value, and every other header with the upstream values in
\* the upstream order.
C1_FreshIsRewritten ==
    (Done /\ Upstream200 /\ GetOrHead /\ is_fresh(req_headers, res))
        => /\ Rewritten
           /\ \A n \in HeaderNames \ {CONTENT_TYPE, CONTENT_LENGTH} :
                  ret.headers[n] = res.headers[n]

C1_Witness ==
    /\ Done /\ Upstream200 /\ GetOrHead /\ is_fresh(req_headers, res)
    /\ Len(res.headers[CONTENT_TYPE]) = 2
    /\ res.headers[CONTENT_LENGTH] # <<>>
    /\ res.headers[CACHE_CONTROL] # <<>>
    /\ res.headers[ETAG] # <<>>
    /\ res.headers[LAST_MODIFIED] # <<>>
    /\ ret.status = 304

\* C2: a successful upstream response whose status is not 200, or whose
\* request is neither GET nor HEAD, or that is_fresh rejects, is returned
\* unchanged: same status, same headers, same body.
C2_OtherwiseUnchanged ==
    (Done /\ res.ok
       /\ (res.status # 200 \/ ~GetOrHead \/ ~is_fresh(req_headers, res)))
        => ret = res

C2_Witness ==
    /\ Done /\ res.ok /\ res.status # 200 /\ GetOrHead
    /\ is_fresh(req_headers, res)
    /\ res.headers[CONTENT_TYPE] # <<>>
    /\ ret = res

\* C3: when the concatenated If-Modified-Since and the concatenated
\* If-None-Match of the request are both empty, is_fresh is false for every
\* response, and the response is returned as it came.
C3_NoValidatorsNotFresh ==
    (res.ok /\ ReqIMS = <<>> /\ ReqINM = <<>>)
        => /\ ~is_fresh(req_headers, res)
           /\ (Done => ret = res)

C3_Witness ==
    /\ Done /\ Upstream200 /\ GetOrHead
    /\ req_headers[IF_MODIFIED_SINCE] = <<>> /\ req_headers[IF_NONE_MATCH] = <<>>
    /\ res.headers[ETAG] = <<>> /\ res.headers[LAST_MODIFIED] = <<>>
    /\ ret.status = 200 /\ ret.body = HELLO

\* C4: an If-Modified-Since that is non-empty text and matches none of the
\* three grammars makes is_fresh false, also when If-None-Match is byte-equal
\* to the ETag, and the 200 response is returned unchanged.
C4_BadDateNotFresh ==
    (res.ok /\ MatchesNoGrammar(ReqIMS))
        => /\ ~is_fresh(req_headers, res)
           /\ (Done => ret = res)

C4_Witness ==
    /\ Done /\ Upstream200 /\ GetOrHead
    /\ MatchesNoGrammar(ReqIMS)
    /\ ReqINM # <<>> /\ ReqINM = ResETag
    /\ ret.status = 200 /\ ret.body = HELLO

\* C5 as stated: for a GET or HEAD request and a 200 response, an
\* If-None-Match byte-equal to the ETag, together with either no
\* If-Modified-Since or an If-Modified-Since that parses as a date equal to
\* or older than the Last-Modified, gives the 304 rewrite.
C5_AsStated ==
    (Done /\ Upstream200 /\ GetOrHead
       /\ ReqINM # <<>> /\ ReqINM = ResETag
       /\ \/ req_headers[IF_MODIFIED_SINCE] = <<>>
          \/ /\ ParsesAsDate(ReqIMS) /\ ParsesAsDate(ResLM)
             /\ NotBefore(parse_http_date(ResLM), parse_http_date(ReqIMS)))
        => Rewritten

\* C5, amended: for a GET or HEAD request and a 200 response, a non-empty
\* If-None-Match byte-equal to the ETag, together with either no
\* If-Modified-Since or an If-Modified-Since that parses as a date equal to
\* or newer than the Last-Modified, gives the 304 rewrite.
C5_EtagAndNotOlder ==
    (Done /\ Upstream200 /\ GetOrHead
       /\ ReqINM # <<>> /\ ReqINM = ResETag
       /\ \/ req_headers[IF_MODIFIED_SINCE] = <<>>
          \/ /\ ParsesAsDate(ReqIMS) /\ ParsesAsDate(ResLM)
             /\ NotBefore(parse_http_date(ReqIMS), parse_http_date(ResLM)))
        => Rewritten

C5_Witness ==
    /\ Done /\ Upstream200 /\ GetOrHead
    /\ ReqINM # <<>> /\ ReqINM = ResETag
    /\ ParsesAsDate(ReqIMS) /\ ParsesAsDate(ResLM)
    /\ parse_http_date(ReqIMS).days > parse_http_date(ResLM).days
    /\ res.headers[CONTENT_TYPE] # <<>>
    /\ Rewritten

\* C6: for a GET request and a 200 response whose If-Modified-Since and
\* Last-Modified both parse and whose concatenated If-None-Match equals the
\* concatenated ETag, the response is rewritten to 304 exactly when the
\* If-Modified-Since timestamp is >= the Last-Modified timestamp; otherwise
\* it keeps status 200 and the original body.
C6_InclusiveTimeComparison ==
    (Done /\ Upstream200 /\ method = "GET"
       /\ ParsesAsDate(ReqIMS) /\ ParsesAsDate(ResLM)
       /\ ReqINM = ResETag)
        => IF NotBefore(parse_http_date(ReqIMS), parse_http_date(ResLM))
           THEN Rewritten
           ELSE ret = res /\ ret.status = 200 /\ ret.body = HELLO

\* Equal instants written in two different grammars, no ETag on either side.
C6_Witness ==
    /\ Done /\ Upstream200 /\ method = "GET"
    /\ ParsesAsDate(ReqIMS) /\ ParsesAsDate(ResLM)
    /\ ReqINM = <<>> /\ ResETag = <<>>
    /\ ReqIMS # ResLM
    /\ parse_http_date(ReqIMS) = parse_http_date(ResLM)
    /\ ret.status = 304

\* C7 as stated: whenever a validator value the evaluator reads is not valid
\* text (If-Modified-Since, Last-Modified) or matches none of the three
\* grammars, is_fresh is false and the full 200 response is sent.
C7_AsStated ==
    (Done /\ Upstream200 /\ GetOrHead
       /\ \/ ~from_utf8_ok(ReqIMS)
          \/ MatchesNoGrammar(ReqIMS)
          \/ /\ ParsesAsDate(ReqIMS)
             /\ (~from_utf8_ok(ResLM) \/ ~ParsesAsDate(ResLM)))
        => ~is_fresh(req_headers, res) /\ ret = res

\* C7, amended: whenever the If-Modified-Since is non-empty text matching
\* none of the three grammars, or it parses and the Last-Modified then read
\* is not valid text or matches none of the grammars, is_fresh is false and
\* the full 200 response is sent.  (An If-Modified-Since that is not valid
\* text is not among these: its time check counts as passed.)
C7_FailuresNotFresh ==
    (Done /\ Upstream200 /\ GetOrHead
       /\ \/ MatchesNoGrammar(ReqIMS)
          \/ /\ ParsesAsDate(ReqIMS)
             /\ (~from_utf8_ok(ResLM) \/ ~ParsesAsDate(ResLM)))
        => ~is_fresh(req_headers, res) /\ ret = res

C7_Witness ==
    /\ Done /\ Upstream200 /\ GetOrHead
    /\ ParsesAsDate(ReqIMS)
    /\ ~from_utf8_ok(ResLM)
    /\ ReqINM = ResETag
    /\ ret = res /\ ret.status = 200

\* C8: the response is found fresh only if the concatenated If-None-Match is
\* byte-equal to the concatenated ETag (two empty ones are equal); when they
\* differ the response is returned unchanged whatever the dates are.
C8_FreshOnlyIfEtagEqual ==
    /\ (Done /\ Upstream200 /\ GetOrHead /\ ret.status = 304) => ReqINM = ResETag
    /\ (Done /\ res.ok /\ ReqINM # ResETag) => ret = res

\* A valid, recent enough If-Modified-Since alone against a response with an ETag.
C8_Witness ==
    /\ Done /\ Upstream200 /\ GetOrHead
    /\ req_headers[IF_NONE_MATCH] = <<>>
    /\ ResETag # <<>>
    /\ ParsesAsDate(ReqIMS) /\ ParsesAsDate(ResLM)
    /\ NotBefore(parse_http_date(ReqIMS), parse_http_date(ResLM))
    /\ ret.status = 200 /\ ret.body = HELLO

RECURSIVE TotalLen(_, _)
\* Total length of the first k values.
TotalLen(values, k) ==
    IF k = 0 THEN 0 ELSE TotalLen(values, k - 1) + Len(values[k])

\* The bytes are the values one after the other with nothing in between.
IsPlainJoin(bytes, values) ==
    /\ Len(bytes) = TotalLen(values, Len(values))
    /\ \A i \in 1..Len(values) :
           SubSeq(bytes, TotalLen(values, i - 1) + 1, TotalLen(values, i)) = values[i]

\* C9: get_and_concat_header gives the values stored under the name joined
\* in insertion order with no separator: nothing for no value, the value
\* itself for one, the plain concatenation for several; so If-None-Match
\* values "12" and "34" match the ETag "1234".
C9_ConcatNoSeparator ==
    /\ \A n \in HeaderNames :
        /\ IsPlainJoin(get_and_concat_header(req_headers, n), req_headers[n])
        /\ IsPlainJoin(get_and_concat_header(res.headers, n), res.headers[n])
        /\ (req_headers[n] = <<>> => get_and_concat_header(req_headers, n) = <<>>)
        /\ (Len(req_headers[n]) = 1 =>
                get_and_concat_header(req_headers, n) = req_headers[n][1])
    /\ (Done /\ Upstream200 /\ GetOrHead
          /\ req_headers[IF_MODIFIED_SINCE] = <<>>
          /\ req_headers[IF_NONE_MATCH] = <<E12, E34>>
          /\ res.headers[ETAG] = <<E1234>>) => ret.status = 304

C9_Witness ==
    /\ Done /\ Upstream200 /\ GetOrHead
    /\ req_headers[IF_MODIFIED_SINCE] = <<>>
    /\ req_headers[IF_NONE_MATCH] = <<E12, E34>>
    /\ res.headers[ETAG] = <<E1234>>
    /\ ret.status = 304

\* C10: when the concatenated If-Modified-Since is not valid text, or is
\* empty while If-None-Match is not, is_fresh equals the byte-equality of the
\* concatenated If-None-Match and ETag, whatever the Last-Modified is.
C10_TimeCheckPassed ==
    (res.ok /\ (~from_utf8_ok(ReqIMS) \/ (ReqIMS = <<>> /\ ReqINM # <<>>)))
        => /\ is_fresh(req_headers, res) <=> (ReqINM = ResETag)
           /\ \A lm \in LastModifiedValues :
                  is_fresh(req_headers, [res EXCEPT !.headers[LAST_MODIFIED] = lm])
                      <=> (ReqINM = ResETag)
           /\ (Done /\ Upstream200 /\ GetOrHead)
                  => (ret.status = 304 <=> ReqINM = ResETag)

C10_Witness ==
    /\ Done /\ Upstream200 /\ GetOrHead
    /\ ~from_utf8_ok(ReqIMS)
    /\ ReqINM # <<>> /\ ReqINM = ResETag
    /\ MatchesNoGrammar(ResLM)
    /\ ret.status = 304

\* C11: when the If-Modified-Since parses as a date and the response has no
\* valid Last-Modified (absent, not valid text, or matching none of the three
\* grammars), the time check fails and is_fresh is false, also when
\* If-None-Match is byte-equal to the ETag.
C11_NoLastModifiedNotFresh ==
    (Done /\ res.ok /\ ParsesAsDate(ReqIMS)
       /\ \/ res.headers[LAST_MODIFIED] = <<>>
          \/ ~from_utf8_ok(ResLM)
          \/ MatchesNoGrammar(ResLM))
        => /\ ~is_modified_since(parse_http_date(ReqIMS), res)
           /\ ~is_fresh(req_headers, res)
           /\ ret = res

C11_Witness ==
    /\ Done /\ Upstream200 /\ GetOrHead
    /\ ParsesAsDate(ReqIMS)
    /\ res.headers[LAST_MODIFIED] = <<>>
    /\ ReqINM # <<>> /\ ReqINM = ResETag
    /\ ret.status = 200 /\ ret.body = HELLO

\* The result of parse_http_date on b is that of the first of RFC 1123,
\* RFC 850 and asctime that accepts b, and the one error value when none does.
FirstGrammarWins(b) ==
    LET r == parse_http_date(b)
        rfc1123 == parse_rfc1123(b)
        rfc850 == parse_rfc850(b)
        asctime == parse_asctime(b)
    IN  /\ rfc1123.ok => r = rfc1123
        /\ (~rfc1123.ok /\ rfc850.ok) => r = rfc850
        /\ (~rfc1123.ok /\ ~rfc850.ok /\ asctime.ok) => r = asctime
        /\ ~r.ok <=> (~rfc1123.ok /\ ~rfc850.ok /\ ~asctime.ok)
        /\ ~r.ok => r = ParseErr

\* C12: parse_http_date returns the instant of the first of the three
\* grammars (RFC 1123, then RFC 850 with numeric month and 2-digit year, then
\* the asctime-like form with numeric month and a tab) that matches, and one
\* undifferentiated error exactly when none of the three matches.
C12_FirstGrammarWins ==
    Done =>
    /\ from_utf8_ok(ReqIMS) => FirstGrammarWins(ReqIMS)
    /\ (res.ok /\ from_utf8_ok(ResLM)) => FirstGrammarWins(ResLM)
    /\ ReqIMS = R1123_A =>
           parse_http_date(ReqIMS) = [ok |-> TRUE, days |-> 9075, secs |-> 31777]
    /\ (res.ok /\ ResLM = R1123_C) =>
           parse_http_date(ResLM) = [ok |-> TRUE, days |-> 9075, secs |-> 31778]
    /\ (res.ok /\ ResLM = R850_B) =>
           parse_http_date(ResLM) = [ok |-> TRUE, days |-> -684885, secs |-> 31777]
    /\ (res.ok /\ ResLM = ASC_A) =>
           parse_http_date(ResLM) = [ok |-> TRUE, days |-> 9075, secs |-> 31777]
    /\ (res.ok /\ ResLM = BAD_STAMP) => parse_http_date(ResLM) = ParseErr

\* A Last-Modified that only the third grammar accepts, given in two values,
\* against an If-Modified-Since of the same instant in the first grammar.
C12_Witness ==
    /\ Done /\ Upstream200 /\ GetOrHead
    /\ parse_rfc1123(ReqIMS).ok
    /\ Len(res.headers[LAST_MODIFIED]) = 2
    /\ ~parse_rfc1123(ResLM).ok /\ ~parse_rfc850(ResLM).ok /\ parse_asctime(ResLM).ok
    /\ parse_http_date(ResLM) = parse_http_date(ReqIMS)
    /\ ReqINM = ResETag
    /\ ret.status = 304

\* C13: when the upstream result is an error, after returns that same error
\* for every request method and every set of request validators; the error
\* is never turned into a response and never into a 304.
C13_ErrorPassedThrough ==
    ~res.ok
        => /\ Done => (ret = res /\ ~ret.ok /\ ret.err = "handler error"
                         /\ ret.status # 304)
           /\ \A m \in Methods : \A h \in RequestHeaders : after(m, h, res) = res

C13_Witness ==
    /\ Done /\ ~res.ok /\ GetOrHead
    /\ ParsesAsDate(ReqIMS)
    /\ ReqINM # <<>>
    /\ ret = HandlerError

====
